---- MODULE Spec2Model ----
(***************************************************************************)
(* pcm2g729: transcoding of a raw 16-bit mono PCM file into a G.729        *)
(* bitstream wrapped in a RIFF container (src/pcm2g729.c).                  *)
(*                                                                          *)
(* The state is that of main(): the two FILE handles, the encoder context, *)
(* the locals of main, and the destination file as the file system holds   *)
(* it.  One action per statement group of main; write_wav_header builds    *)
(* the header byte by byte (little-endian host).  The codec (libbcg729) is *)
(* outside the repository: it is a deterministic function of the frames    *)
(* fed to a fresh context, drawn from a small family of codecs.            *)
(***************************************************************************)
EXTENDS Integers, Sequences, FiniteSets

\* ---------------------------------------------------------------- constants

FRAME_SIZE == 80

ENCODED_FRAME_SIZE == 10

WAV_HEADER_SIZE == 58

\* The uint32_t locals (frame_count, sample_count, total_data_size,
\* chunk_size) wrap at 2^32.  TLC's integers end at 2^31 - 1, and every value
\* below stays under 2^10 within the bounds, so the arithmetic is written
\* without the wrap: inputs of 2^32 / 80 frames or more are not covered.

\* sizeof(int16_t)
SAMPLE_BYTES == 2

\* content of memory never written (stack array pcmFrame, malloc'd frames)
Junk == 204

\* sinkCap of a sink that accepts every byte
Unlimited == -1

\* ------------------------------------------------------------------- bounds

\* length of the input file in bytes: 0 .. MaxInBytes
MaxInBytes == 322

\* the codecs: 0 .. MaxCodec
MaxCodec == 2

\* the program is run at most MaxRuns times on the same input
MaxRuns == 2

\* the faulty sink accepts 0 .. MaxSinkCap bytes
MaxSinkCap == 70

\* input lengths tried against the faulty sink
FaultInBytes == 6

\* -------------------------------------------------------------------- state

VARIABLES
    inBytes,          \* length of the input file, bytes
    codec,            \* which codec the encoder library is
    sinkCap,          \* bytes the output device accepts (Unlimited: all)
    runNo,            \* how many times the program has been started
    preExists,        \* destination existed when this run started
    preFile,          \* its content then
    prevExit,         \* exit code of the previous run (-1: none)
    pc,               \* position in main
    exitCode,         \* main's return value (-1: still running)
    failure,          \* which call failed: "none", "in", "out", "enc"
    inPos,            \* file position of pcmFile, bytes
    destExists,       \* the destination path names a file
    destFile,         \* its bytes
    ctxLive,          \* encoder != NULL and not yet closed
    ctxState,         \* the codec's internal history
    ctxCreated,       \* contexts created in this run
    pcmFrame,         \* int16_t pcmFrame[FRAME_SIZE]
    frame_count,
    sample_count,
    total_data_size,
    frames,           \* EncodedFrame *frames
    i,                \* index of the encode loop
    j,                \* index of the write loop
    fed,              \* the frames handed to bcg729Encoder, in call order
    writeFailed       \* some fwrite to outFile wrote less than asked

vars == <<inBytes, codec, sinkCap, runNo, preExists, preFile, prevExit,
          pc, exitCode, failure, inPos, destExists, destFile, ctxLive,
          ctxState, ctxCreated, pcmFrame, frame_count, sample_count,
          total_data_size, frames, i, j, fed, writeFailed>>

envVars == <<inBytes, codec, sinkCap>>

\* ------------------------------------------------------------------ helpers

Min(a, b) == IF a < b THEN a ELSE b

Max(a, b) == IF a > b THEN a ELSE b

RECURSIVE SumTo(_, _)
SumTo(f, n) == IF n = 0 THEN 0 ELSE f[n] + SumTo(f, n - 1)

RECURSIVE Flatten(_)
Flatten(ss) == IF ss = <<>> THEN <<>> ELSE Head(ss) \o Flatten(Tail(ss))

\* ---------------------------------------------------------------- the input

\* number of whole samples in the input file
InSamples == inBytes \div SAMPLE_BYTES

\* sample k (0-based) of the input: a fixed waveform in -5 .. 5
Sample(k) == ((k * 7 + 3) % 11) - 5

\* fread(pcmFrame, sizeof(int16_t), FRAME_SIZE, pcmFile): items read at pos
FreadCount(pos) == Min(FRAME_SIZE, (inBytes - pos) \div SAMPLE_BYTES)

\* the buffer after that fread: the items read, the rest untouched
FreadInto(buf, pos) ==
    [k \in 1..FRAME_SIZE |->
        IF k <= FreadCount(pos) THEN Sample(pos \div SAMPLE_BYTES + k - 1)
                                ELSE buf[k]]

\* -------------------------------------------------------------- the encoder

\* initBcg729EncoderChannel: the history of a fresh context
FreshContext == 0

\* the history after one more frame
EncNext(ctx, frame) ==
    (ctx * 31 + SumTo([k \in 1..FRAME_SIZE |-> k * (frame[k] + 8)], FRAME_SIZE) + 1) % 251

\* bitStreamLength[0]: 10 (speech), 2 (SID) or 0 (untransmitted) for the
\* codecs 0 and 1, anything in 0 .. 10 for the others
EncLen(ctx) ==
    CASE codec = 0 -> ENCODED_FRAME_SIZE
      [] codec = 1 -> IF ctx % 3 = 0 THEN 2
                      ELSE IF ctx % 3 = 1 THEN 0 ELSE ENCODED_FRAME_SIZE
      [] OTHER     -> (ctx * codec) % (ENCODED_FRAME_SIZE + 1)

\* the bitstream written into frames[i].data: EncLen bytes, the rest untouched
EncData(ctx, old) ==
    [k \in 1..ENCODED_FRAME_SIZE |->
        IF k <= EncLen(ctx) THEN (ctx * 7 + k * 13) % 256 ELSE old[k]]

\* ------------------------------------------------------------ the container

LE16(x) == <<x % 256, (x \div 256) % 256>>

LE32(x) == <<x % 256, (x \div 256) % 256, (x \div 65536) % 256,
             (x \div 16777216) % 256>>

\* the little-endian uint32 at byte offset off (0-based) of file
RdLE32(file, off) ==
    file[off + 1] + 256 * file[off + 2] + 65536 * file[off + 3]
        + 16777216 * file[off + 4]

TagRIFF == <<82, 73, 70, 70>>

TagWAVE == <<87, 65, 86, 69>>

TagFmt == <<102, 109, 116, 32>>

TagFact == <<102, 97, 99, 116>>

TagData == <<100, 97, 116, 97>>

ChunkSizeNoFact(data_size) == 4 + 24 + 8 + data_size

\* uint32_t chunk_size = 4 + 24 + 12 + 8 + data_size
ChunkSize(data_size) == 4 + 24 + 12 + 8 + data_size

\* the seventeen fwrite calls of write_wav_header, in order
HeaderFields(data_size, sample_count_) ==
    << TagRIFF, LE32(ChunkSize(data_size)), TagWAVE,
       TagFmt, LE32(16),
       LE16(307), LE16(1), LE32(8000), LE32(8000), LE16(10), LE16(0),
       TagFact, LE32(4), LE32(sample_count_),
       TagData, LE32(data_size) >>

\* what write_wav_header asks the sink to take
WavHeader(data_size, sample_count_) == Flatten(HeaderFields(data_size, sample_count_))

\* the bytes of `bytes` the sink takes when the file holds `file`
Accepted(file, bytes) ==
    IF sinkCap = Unlimited THEN bytes
    ELSE SubSeq(bytes, 1, Min(Len(bytes), Max(0, sinkCap - Len(file))))

\* --------------------------------------------------------- pieces of main

AppendContent(old) == old

\* fopen(argv[2], "wb"): the file is created, or truncated to length 0
OpenedContent(old) == <<>>

CountFullFrames(fc, got) == IF got = FRAME_SIZE THEN fc + 1 ELSE fc

\* frame_count++ for every fread that returned > 0
CountFrame(fc, got) == IF got > 0 THEN fc + 1 ELSE fc

NeverNull(created) == FALSE

\* if (!encoder)
EncoderIsNull(created) == ~created

NoRewindPos == inPos

\* rewind(pcmFile)
RewindPos == 0

NoPad(buf, got) == buf

\* memset(pcmFrame + bytesRead, 0, (FRAME_SIZE - bytesRead) * sizeof(int16_t))
PadFrame(buf, got) ==
    IF got < FRAME_SIZE
    THEN [k \in 1..FRAME_SIZE |-> IF k > got THEN 0 ELSE buf[k]]
    ELSE buf

AddFullSize(total, len) == total + ENCODED_FRAME_SIZE

\* total_data_size += bitStreamLength[0]
AddSize(total, len) == total + len

\* uint32_t sample_count = frame_count * FRAME_SIZE
SampleCount(fc) == fc * FRAME_SIZE

\* malloc(frame_count * sizeof(EncodedFrame)): fc entries never written
MallocFrames(fc) ==
    [k \in 1..fc |-> [data |-> [b \in 1..ENCODED_FRAME_SIZE |-> Junk],
                      size |-> Junk]]

JunkFrame == [k \in 1..FRAME_SIZE |-> Junk]

\* the locals of main at its entry
Locals ==
    /\ pc = "open_in"
    /\ exitCode = -1
    /\ failure = "none"
    /\ inPos = 0
    /\ ctxLive = FALSE
    /\ ctxState = 0
    /\ ctxCreated = 0
    /\ pcmFrame = JunkFrame
    /\ frame_count = 0
    /\ sample_count = 0
    /\ total_data_size = 0
    /\ frames = <<>>
    /\ i = 0
    /\ j = 0
    /\ fed = <<>>
    /\ writeFailed = FALSE

\* --------------------------------------------------------------------- Init

InitCommon ==
    /\ codec \in 0..MaxCodec
    /\ runNo = 1
    /\ preExists = FALSE
    /\ preFile = <<>>
    /\ prevExit = -1
    /\ destExists = FALSE
    /\ destFile = <<>>
    /\ Locals

Init ==
    /\ inBytes \in 0..MaxInBytes
    /\ sinkCap = Unlimited
    /\ InitCommon

InitFault ==
    /\ inBytes \in 0..FaultInBytes
    /\ sinkCap \in 0..MaxSinkCap
    /\ InitCommon

\* ------------------------------------------------------------------ actions

Exit(code, why) ==
    /\ pc' = "done"
    /\ exitCode' = code
    /\ failure' = why
    /\ ctxLive' = FALSE

\* pcmFile = fopen(argv[1], "rb")
OpenInput ==
    /\ pc = "open_in"
    /\ \E ok \in BOOLEAN :
          IF ok THEN /\ pc' = "open_out"
                     /\ UNCHANGED <<exitCode, failure, ctxLive>>
                ELSE Exit(1, "in")
    /\ UNCHANGED <<envVars, runNo, preExists, preFile, prevExit, inPos,
                   destExists, destFile, ctxState, ctxCreated, pcmFrame,
                   frame_count, sample_count, total_data_size, frames, i, j,
                   fed, writeFailed>>

\* outFile = fopen(argv[2], "wb")
OpenOutput ==
    /\ pc = "open_out"
    /\ \E ok \in BOOLEAN :
          IF ok THEN /\ pc' = "init_enc"
                     /\ destExists' = TRUE
                     /\ destFile' = OpenedContent(destFile)
                     /\ UNCHANGED <<exitCode, failure, ctxLive>>
                ELSE /\ Exit(1, "out")
                     /\ UNCHANGED <<destExists, destFile>>
    /\ UNCHANGED <<envVars, runNo, preExists, preFile, prevExit, inPos,
                   ctxState, ctxCreated, pcmFrame, frame_count, sample_count,
                   total_data_size, frames, i, j, fed, writeFailed>>

\* encoder = initBcg729EncoderChannel(0), and the return on NULL
InitEncoder ==
    /\ pc = "init_enc"
    /\ \E created \in BOOLEAN :
          /\ ctxState' = IF created THEN FreshContext ELSE ctxState
          /\ ctxCreated' = IF created THEN ctxCreated + 1 ELSE ctxCreated
          /\ IF EncoderIsNull(created)
                THEN Exit(1, "enc")
                ELSE /\ pc' = "count"
                     /\ ctxLive' = created
                     /\ UNCHANGED <<exitCode, failure>>
    /\ UNCHANGED <<envVars, runNo, preExists, preFile, prevExit, inPos,
                   destExists, destFile, pcmFrame, frame_count, sample_count,
                   total_data_size, frames, i, j, fed, writeFailed>>

\* one turn of the counting loop: the fread, its test, frame_count++
CountRead ==
    /\ pc = "count"
    /\ LET got == FreadCount(inPos) IN
          /\ pcmFrame' = FreadInto(pcmFrame, inPos)
          /\ inPos' = inPos + SAMPLE_BYTES * got
          /\ frame_count' = CountFrame(frame_count, got)
          /\ pc' = IF got > 0 THEN "count" ELSE "rewind"
    /\ UNCHANGED <<envVars, runNo, preExists, preFile, prevExit, exitCode,
                   failure, destExists, destFile, ctxLive, ctxState,
                   ctxCreated, sample_count, total_data_size, frames, i, j,
                   fed, writeFailed>>

\* rewind(pcmFile); sample_count = ...; frames = malloc(...)
Rewind ==
    /\ pc = "rewind"
    /\ inPos' = RewindPos
    /\ sample_count' = SampleCount(frame_count)
    /\ frames' = MallocFrames(frame_count)
    /\ i' = 0
    /\ pc' = "encode"
    /\ UNCHANGED <<envVars, runNo, preExists, preFile, prevExit, exitCode,
                   failure, destExists, destFile, ctxLive, ctxState,
                   ctxCreated, pcmFrame, frame_count, total_data_size, j, fed,
                   writeFailed>>

\* one turn of the encode loop
EncodeFrame ==
    /\ pc = "encode"
    /\ i < frame_count
    /\ LET got   == FreadCount(inPos)
           frame == PadFrame(FreadInto(pcmFrame, inPos), got)
           ctx   == EncNext(ctxState, frame)
       IN /\ pcmFrame' = frame
          /\ inPos' = inPos + SAMPLE_BYTES * got
          /\ ctxState' = ctx
          /\ fed' = Append(fed, frame)
          /\ frames' = [frames EXCEPT ![i + 1] =
                           [data |-> EncData(ctx, @.data), size |-> EncLen(ctx)]]
          /\ total_data_size' = AddSize(total_data_size, EncLen(ctx))
    /\ i' = i + 1
    /\ UNCHANGED <<envVars, runNo, preExists, preFile, prevExit, pc, exitCode,
                   failure, destExists, destFile, ctxLive, ctxCreated,
                   frame_count, sample_count, j, writeFailed>>

\* write_wav_header(outFile, total_data_size, sample_count)
WriteHeader ==
    /\ pc = "encode"
    /\ i >= frame_count
    /\ LET hdr == WavHeader(total_data_size, sample_count)
           acc == Accepted(destFile, hdr)
       IN /\ destFile' = destFile \o acc
          /\ writeFailed' = (writeFailed \/ Len(acc) < Len(hdr))
    /\ j' = 0
    /\ pc' = "write"
    /\ UNCHANGED <<envVars, runNo, preExists, preFile, prevExit, exitCode,
                   failure, inPos, destExists, ctxLive, ctxState, ctxCreated,
                   pcmFrame, frame_count, sample_count, total_data_size,
                   frames, i, fed>>

\* one turn of the write loop: fwrite(frames[i].data, 1, frames[i].size, outFile)
WriteFrame ==
    /\ pc = "write"
    /\ j < frame_count
    /\ LET bytes == SubSeq(frames[j + 1].data, 1, frames[j + 1].size)
           acc   == Accepted(destFile, bytes)
       IN /\ destFile' = destFile \o acc
          /\ writeFailed' = (writeFailed \/ Len(acc) < Len(bytes))
    /\ j' = j + 1
    /\ UNCHANGED <<envVars, runNo, preExists, preFile, prevExit, pc, exitCode,
                   failure, inPos, destExists, ctxLive, ctxState, ctxCreated,
                   pcmFrame, frame_count, sample_count, total_data_size,
                   frames, i, fed>>

\* free, closeBcg729EncoderChannel, fclose, fclose, printf, return 0
Cleanup ==
    /\ pc = "write"
    /\ j >= frame_count
    /\ Exit(0, "none")
    /\ UNCHANGED <<envVars, runNo, preExists, preFile, prevExit, inPos,
                   destExists, destFile, ctxState, ctxCreated, pcmFrame,
                   frame_count, sample_count, total_data_size, frames, i, j,
                   fed, writeFailed>>

\* the program is started again on the same input and destination
Rerun ==
    /\ pc = "done"
    /\ runNo < MaxRuns
    /\ runNo' = runNo + 1
    /\ preExists' = destExists
    /\ preFile' = destFile
    /\ prevExit' = exitCode
    /\ pc' = "open_in"
    /\ exitCode' = -1
    /\ failure' = "none"
    /\ inPos' = 0
    /\ ctxLive' = FALSE
    /\ ctxState' = 0
    /\ ctxCreated' = 0
    /\ pcmFrame' = JunkFrame
    /\ frame_count' = 0
    /\ sample_count' = 0
    /\ total_data_size' = 0
    /\ frames' = <<>>
    /\ i' = 0
    /\ j' = 0
    /\ fed' = <<>>
    /\ writeFailed' = FALSE
    /\ UNCHANGED <<envVars, destExists, destFile>>

Next ==
    \/ OpenInput
    \/ OpenOutput
    \/ InitEncoder
    \/ CountRead
    \/ Rewind
    \/ EncodeFrame
    \/ WriteHeader
    \/ WriteFrame
    \/ Cleanup
    \/ Rerun

Spec == Init /\ [][Next]_vars

SpecFault == InitFault /\ [][Next]_vars

\* ------------------------------------------------- reading the container back

\* offset (0-based) of the first chunk tagged `tag` at or after off, -1 if none
RECURSIVE ChunkOffset(_, _, _)
ChunkOffset(file, tag, off) ==
    IF off + 8 > Len(file) THEN -1
    ELSE IF SubSeq(file, off + 1, off + 4) = tag THEN off
    ELSE ChunkOffset(file, tag, off + 8 + RdLE32(file, off + 4))

\* the chunks start after "RIFF", the size and "WAVE"
DataAt(file) == ChunkOffset(file, TagData, 12)

FactAt(file) == ChunkOffset(file, TagFact, 12)

DeclaredDataSize(file) == RdLE32(file, DataAt(file) + 4)

DeclaredSampleCount(file) == RdLE32(file, FactAt(file) + 8)

DeclaredRiffSize(file) == RdLE32(file, 4)

\* the bytes that follow the data chunk's size field
Payload(file) == SubSeq(file, DataAt(file) + 9, Len(file))

\* the frames' encoded bytes, in order
FramesBytes == Flatten([k \in 1..Len(frames) |->
                           SubSeq(frames[k].data, 1, frames[k].size)])

SumOfSizes == SumTo([k \in 1..Len(frames) |-> frames[k].size], Len(frames))

\* the k-th frame (1-based) of the input, zero-padded to FRAME_SIZE
ExpectedFrame(k) ==
    [m \in 1..FRAME_SIZE |->
        IF FRAME_SIZE * (k - 1) + m - 1 < InSamples
        THEN Sample(FRAME_SIZE * (k - 1) + m - 1) ELSE 0]

Succeeded == pc = "done" /\ exitCode = 0

\* the milestones of a transcode: 0 opening, 1 Opened, 2 Counted, 3 Encoded,
\* 4 Written, 5 failed
Phase ==
    CASE pc \in {"open_in", "open_out"}        -> 0
      [] pc \in {"init_enc", "count"}          -> 1
      [] pc = "rewind"                         -> 2
      [] pc = "encode" /\ i < frame_count      -> 2
      [] pc = "encode" /\ i >= frame_count     -> 3
      [] pc = "write"                          -> 3
      [] pc = "done" /\ exitCode = 0           -> 4
      [] OTHER                                 -> 5

\* ------------------------------------------------------------------- claims

\* C1: when the transcode completes, the data-chunk size declared in the
\* header equals the number of payload bytes written after the header, which
\* is the sum of the lengths of the frames written.
Thm_C1_DataSizeIsPayload ==
    Succeeded =>
        /\ DataAt(destFile) >= 0
        /\ DeclaredDataSize(destFile) = Len(Payload(destFile))
        /\ Len(Payload(destFile)) = SumOfSizes
        /\ Len(frames) = frame_count

Wit_C1 ==
    /\ Succeeded
    /\ frame_count = 3
    /\ \E k \in 1..3 : frames[k].size \notin {0, ENCODED_FRAME_SIZE}
    /\ DeclaredDataSize(destFile) = frames[1].size + frames[2].size + frames[3].size

\* C2: an input of n samples gives ceil(n / 80) frames, and the fact chunk
\* declares frameCount * 80 samples, the zero padding included.
Thm_C2_FrameAndSampleCount ==
    Succeeded =>
        /\ frame_count = (InSamples + FRAME_SIZE - 1) \div FRAME_SIZE
        /\ FactAt(destFile) >= 0
        /\ DeclaredSampleCount(destFile) = frame_count * FRAME_SIZE

Wit_C2 ==
    /\ Succeeded
    /\ InSamples = 2 * FRAME_SIZE + 1
    /\ frame_count = 3
    /\ DeclaredSampleCount(destFile) = 3 * FRAME_SIZE

\* C3 (as stated): the file of a successful transcode is a header of exactly
\* 58 bytes followed by the encoded payload, 58 + data size bytes in all; an
\* empty input gives 0 frames, sample count 0, data size 0 and the 58-byte
\* header alone.
Orig_C3_FileIsHeaderThenPayload ==
    Succeeded =>
        /\ DataAt(destFile) + 8 = WAV_HEADER_SIZE
        /\ Len(destFile) = WAV_HEADER_SIZE + DeclaredDataSize(destFile)
        /\ SubSeq(destFile, WAV_HEADER_SIZE + 1, Len(destFile)) = FramesBytes
        /\ InSamples = 0 =>
              /\ frame_count = 0
              /\ DeclaredSampleCount(destFile) = 0
              /\ DeclaredDataSize(destFile) = 0
              /\ Len(destFile) = WAV_HEADER_SIZE

\* C4 (as stated): when encoder context creation fails, the transcode ends
\* with no file created or truncated at the destination path.
Orig_C4_NoFileOnEncoderFailure ==
    (pc = "done" /\ failure = "enc") =>
        /\ destExists = preExists
        /\ destFile = preFile

\* C5 (as stated): when a write of the header or of a frame fails, the
\* transcode ends in failure and leaves no partially written file.
Orig_C5_WriteFailureIsFatal ==
    (pc = "done" /\ writeFailed) =>
        /\ exitCode # 0
        /\ destExists = preExists
        /\ destFile = preFile

\* C6: every frame handed to the encoder has exactly 80 samples: frame k
\* holds the input samples 80(k-1) .. 80(k-1)+79 in order, the last frame of
\* an input that is no multiple of 80 is filled up with zeros, never with
\* samples of an earlier frame, and the padding is (80 - n mod 80) mod 80 long.
Thm_C6_FramesAreZeroPadded ==
    /\ \A k \in 1..Len(fed) :
          /\ DOMAIN fed[k] = 1..FRAME_SIZE
          /\ fed[k] = ExpectedFrame(k)
    /\ Succeeded =>
          FRAME_SIZE * Len(fed) - InSamples
              = (FRAME_SIZE - (InSamples % FRAME_SIZE)) % FRAME_SIZE

Wit_C6 ==
    /\ Succeeded
    /\ InSamples = FRAME_SIZE + 1
    /\ Len(fed) = 2
    /\ fed[1][2] # 0
    /\ fed[2][1] = Sample(FRAME_SIZE)
    /\ \A m \in 2..FRAME_SIZE : fed[2][m] = 0

Orig_C8_ContextAfterCounting ==
    ctxCreated > 0 => pc \notin {"init_enc", "count"}

PhaseStep ==
    \/ pc' = "open_in"
    \/ Phase' = Phase
    \/ Phase' = Phase + 1
    \/ Phase' = 5

\* C8 (amended): the phases come in the order Opened, Counted, Encoded,
\* Written, one at a time; the counting pass never invokes the encoder; the
\* encoder context is created before the counting pass starts, and it is
\* first used after the counting pass has completed.
Thm_C8_PhaseOrder ==
    /\ [](/\ Phase <= 1 => fed = <<>>
          /\ pc = "count" => (ctxLive /\ ctxCreated = 1)
          /\ pc \in {"open_in", "open_out", "init_enc"} => ctxCreated = 0
          /\ fed # <<>> => Phase \in 2..4)
    /\ [][PhaseStep]_vars

Wit_C8 ==
    /\ pc = "count"
    /\ frame_count = 2
    /\ ctxLive
    /\ fed = <<>>

\* C9: the encoder is invoked exactly frameCount times on one context, the
\* k-th call on the k-th frame of the stream, and no byte of output is
\* emitted before the last call has returned.
Thm_C9_EncodeInOrderThenWrite ==
    /\ ctxCreated <= 1
    /\ pc \in {"encode", "write"} \/ Succeeded =>
          /\ Len(fed) = i
          /\ \A k \in 1..Len(fed) : \A m \in 1..FRAME_SIZE :
                FRAME_SIZE * (k - 1) + m - 1 < InSamples
                    => fed[k][m] = Sample(FRAME_SIZE * (k - 1) + m - 1)
    /\ pc = "write" \/ Succeeded =>
          /\ Len(fed) = frame_count
          /\ ctxCreated = 1
    /\ pc \in {"init_enc", "count", "rewind", "encode"} => destFile = <<>>

Wit_C9 ==
    /\ pc = "write"
    /\ j = 0
    /\ frame_count = 3
    /\ Len(fed) = 3
    /\ Len(destFile) = Len(WavHeader(total_data_size, sample_count))

\* C10: for every completed transcode the RIFF size field at bytes 4..7
\* equals the number of bytes that follow it, the file's length minus 8.
Thm_C10_RiffSizeIsRest ==
    Succeeded => DeclaredRiffSize(destFile) = Len(destFile) - 8

Wit_C10 ==
    /\ Succeeded
    /\ frame_count = 3
    /\ Len(Payload(destFile)) > 0
    /\ DeclaredRiffSize(destFile) = Len(destFile) - 8

====
